---- MODULE Spec2Model ----
(***************************************************************************)
(* Model of the data-access layer of the expense tracker                   *)
(* (class DatabaseManager in src/SourceCode.py).                           *)
(*                                                                         *)
(* Text that the code inspects character by character (e-mail addresses,   *)
(* file names, dates, category names) is a sequence of one-character      *)
(* strings.  Text that is only stored and compared for equality            *)
(* (descriptions) is a plain string.  Amounts are exact integers (hundredths of the currency *)
(* unit); the REAL column's binary rounding is not modelled.               *)
(* Python's None and "" are both the empty sequence: every place that      *)
(* reads the e-mail tests it with `if not email` / `if email`, which does  *)
(* not tell them apart.  Python's True/False are the integers 1/0, which   *)
(* is what they compare equal to.                                          *)
(***************************************************************************)
EXTENDS Integers, Sequences, FiniteSets, TLC

\* Bound on the number of rows ever inserted, over all dataset files.
MaxAdds == 3

\* The open connections are counted up to this number.
MaxConns == 2

(***************************************************************************)
(* Characters and text                                                     *)
(***************************************************************************)
Digits == <<"0", "1", "2", "3", "4", "5", "6", "7", "8", "9">>

DigitSet == {Digits[i] : i \in 1..10}

Letters == <<"a", "b", "c", "d", "e", "f", "g", "h", "i", "j", "k", "l", "m",
             "n", "o", "p", "q", "r", "s", "t", "u", "v", "w", "x", "y", "z">>

LetterSet == {Letters[i] : i \in 1..26}

\* The character class [a-zA-Z0-9] of sanitize_email, over the alphabet used.
Alnum == DigitSet \cup LetterSet

\* Value of a decimal digit character.
DigitVal(c) == (CHOOSE i \in 1..10 : Digits[i] = c) - 1

\* Byte value of a character, for the BINARY collation of TEXT columns.
Ord(c) == IF c \in DigitSet THEN 48 + DigitVal(c)
          ELSE IF c = " " THEN 32
          ELSE IF c = "-" THEN 45
          ELSE IF c = "." THEN 46
          ELSE IF c = "@" THEN 64
          ELSE IF c = "_" THEN 95
          ELSE 96 + (CHOOSE i \in 1..26 : Letters[i] = c)

\* memcmp-style comparison of two texts: a < b.
RECURSIVE TextLess(_, _)
TextLess(a, b) ==
    IF b = <<>> THEN FALSE
    ELSE IF a = <<>> THEN TRUE
    ELSE IF Ord(Head(a)) # Ord(Head(b)) THEN Ord(Head(a)) < Ord(Head(b))
    ELSE TextLess(Tail(a), Tail(b))

\* Python str(n) for n >= 0: decimal digits, no padding.
RECURSIVE PyStr(_)
PyStr(n) == IF n < 10 THEN <<Digits[n + 1]>>
            ELSE PyStr(n \div 10) \o <<Digits[(n % 10) + 1]>>

\* Numeric value of a text of digits.
RECURSIVE NumVal(_)
NumVal(t) == IF t = <<>> THEN 0
             ELSE 10 * NumVal(SubSeq(t, 1, Len(t) - 1)) + DigitVal(t[Len(t)])

PyTrue == 1

PyFalse == 0

(***************************************************************************)
(* Inputs                                                                  *)
(***************************************************************************)
T(a, b, c, d, e, f, g, h, i, j) == <<a, b, c, d, e, f, g, h, i, j>>

\* 2024-01-05, 2024-03-06 and 0999-05-01 as stored text.
Date_2024_01_05 == T("2", "0", "2", "4", "-", "0", "1", "-", "0", "5")

Date_2024_03_06 == T("2", "0", "2", "4", "-", "0", "3", "-", "0", "6")

Date_0999_05_01 == T("0", "9", "9", "9", "-", "0", "5", "-", "0", "1")

Food == <<"f", "o", "o", "d">>

Bus == <<"b", "u", "s">>

Exp(d, a, c, t) == [description |-> d, amount |-> a, category |-> c, date |-> t]

\* The (description, amount, category, date) submissions the model draws from.
Inputs == { Exp("Coffee", 350, Food, Date_2024_01_05),
            Exp("Ticket", 200, Bus, Date_2024_03_06),
            Exp("Bread", 200, Food, Date_0999_05_01) }

NoExp == Exp("", 0, <<>>, <<>>)

\* a.b@c.d and a_b@c.d
Emails == { <<"a", ".", "b", "@", "c", ".", "d">>,
            <<"a", "_", "b", "@", "c", ".", "d">> }

\* None (and "") as an e-mail or file name.
None == <<>>

\* Statement of a call at which the storage raises ("none": it does not).
Faults == {"none", "first", "second"}

(***************************************************************************)
(* DatabaseManager                                                         *)
(***************************************************************************)
VARIABLES is_local, email, email_db_file, current_db_file,
          disk,     \* file name -> dataset, for the files that exist
          last,     \* the last completed call: its operation, where it
                    \* failed, what it returned and, when it succeeded, its
                    \* arguments (for add: the rowid it assigned)
          ever,     \* file name -> ids ever assigned in that file's expenses
          connections,  \* connections that completed operations opened and
                        \* that are still open
          backup_files, \* the expense_backup_<timestamp>.json files in the
                        \* working directory, by their timestamp
          selected_expense, \* the window's selected_expense: None or the
                            \* values of the row picked in the list
          selected_in,  \* the dataset file that was active when that row was
                        \* picked (None without a selection)
          message       \* the text of the last error box or status line

\* What no operation on the datasets touches.
outside == <<backup_files, selected_expense, selected_in, message>>

vars == <<is_local, email, email_db_file, current_db_file, disk, last, ever,
          connections, outside>>

local_db_file == <<"e", "x", "p", "e", "n", "s", "e", "s", ".", "d", "b">>

sanitize_email(e) ==
    IF e = <<>> THEN <<>>
    ELSE [i \in 1..Len(e) |-> IF e[i] \in Alnum THEN e[i] ELSE "_"]

\* f"expenses_{self.sanitize_email(email)}.db"
email_file_name(e) ==
    <<"e", "x", "p", "e", "n", "s", "e", "s", "_">> \o sanitize_email(e)
        \o <<".", "d", "b">>

\* A dataset file: the expenses table, the names in the categories table and
\* the sqlite_sequence entry of expenses (largest rowid ever assigned).
EmptyDataset == [expenses |-> {}, categories |-> {}, seq |-> 0]

\* CREATE TABLE IF NOT EXISTS on the file, applied to the disk d.
create_table(d, file) ==
    IF file \in DOMAIN d THEN d ELSE d @@ (file :> EmptyDataset)

\* sqlite3.connect(...) in a with statement: the block's exit commits or
\* rolls back and leaves the connection open; nothing in the class closes
\* it.  It stays open until the interpreter collects the object.
Connect(n) == IF n < MaxConns THEN n + 1 ELSE n

Call(op, id, exp, fault, ret) ==
    [op |-> op, id |-> id, exp |-> exp, fault |-> fault, ret |-> ret]

Init ==
    /\ is_local = TRUE
    /\ email = None
    /\ email_db_file = None
    /\ current_db_file = local_db_file
    /\ disk = create_table(<<>>, local_db_file)
    /\ last = Call("init", 0, NoExp, "none", PyTrue)
    /\ ever = (local_db_file :> {})
    /\ connections = Connect(0)
    /\ backup_files = {}
    /\ selected_expense = None
    /\ selected_in = None
    /\ message = ""

(***************************************************************************)
(* SQL statements, as functions on one dataset                             *)
(***************************************************************************)
RECURSIVE SumAmount(_)
SumAmount(rows) ==
    IF rows = {} THEN 0
    ELSE LET r == CHOOSE x \in rows : TRUE
         IN r.amount + SumAmount(rows \ {r})

MaxOf(S) == IF S = {} THEN 0 ELSE CHOOSE m \in S : \A x \in S : x <= m

Row(id, e) ==
    [id |-> id, description |-> e.description, amount |-> e.amount,
     category |-> e.category, date |-> e.date]

Fields(r) == Exp(r.description, r.amount, r.category, r.date)

\* Mutant: INSERT OR REPLACE into a table that keeps one name.
InsertOrIgnoreCategory_one_name(ds, category) ==
    [ds EXCEPT !.categories = {category}]

\* INSERT OR IGNORE INTO categories (name) VALUES (?)
InsertOrIgnoreCategory(ds, category) ==
    [ds EXCEPT !.categories = @ \cup {category}]

\* Mutant: rowid of a plain INTEGER PRIMARY KEY, one more than the largest
\* rowid now in the table.
NextRowid_max_in_table(ds) == MaxOf({r.id : r \in ds.expenses}) + 1

\* The rowid AUTOINCREMENT assigns: one more than the largest ever assigned.
NextRowid(ds) == MaxOf({ds.seq} \cup {r.id : r \in ds.expenses}) + 1

\* INSERT INTO expenses (description, amount, category, date) VALUES (?,?,?,?)
InsertExpense(ds, e) ==
    [ds EXCEPT !.expenses = @ \cup {Row(NextRowid(ds), e)},
               !.seq = NextRowid(ds)]

\* Mutant: the SET list without the category.
UpdateExpense_keeps_category(ds, id, e) ==
    [ds EXCEPT !.expenses =
        {IF r.id = id THEN [Row(id, e) EXCEPT !.category = r.category] ELSE r :
            r \in @}]

\* UPDATE expenses SET description=?, amount=?, category=?, date=? WHERE id=?
UpdateExpense(ds, id, e) ==
    [ds EXCEPT !.expenses = {IF r.id = id THEN Row(id, e) ELSE r : r \in @}]

\* Mutant: WHERE id >= ?
DeleteExpense_from_id(ds, id) ==
    [ds EXCEPT !.expenses = {r \in @ : r.id < id}]

\* DELETE FROM expenses WHERE id = ?
DeleteExpense(ds, id) ==
    [ds EXCEPT !.expenses = {r \in @ : r.id # id}]

(***************************************************************************)
(* Mutating operations.  `with sqlite3.connect(...) as conn` commits when  *)
(* the block ends normally and rolls the transaction back when a           *)
(* statement raises; the except clause then returns False.                 *)
(***************************************************************************)
ActiveDataset == disk[current_db_file]

TotalAssigned == SumAmount({[amount |-> disk[f].seq, file |-> f] : f \in DOMAIN disk})

\* Mutant: a connection in autocommit mode, where every statement that ran
\* stays written.
Rollback_autocommit(before, partial) == partial

\* What the file holds after a statement raised inside the with block: the
\* connection's __exit__ rolls back to `before`, whatever `partial` the
\* statements that already ran had written.
Rollback(before, partial) == before

\* The dataset as written by the statements that ran before the one that
\* raised (both operations run the category insert first).
Partial(ds, category, fault) ==
    IF fault = "second" THEN InsertOrIgnoreCategory(ds, category) ELSE ds

\* Mutant: the try block without its `return True`.
Result_no_return(fault) == PyFalse

\* The value the operation returns: True, or False from the except clause.
Result(fault) == IF fault = "none" THEN PyTrue ELSE PyFalse

add_expense(description, amount, category, date, fault) ==
    LET e == Exp(description, amount, category, date)
        ds == InsertExpense(InsertOrIgnoreCategory(ActiveDataset, category), e)
    IN /\ TotalAssigned < MaxAdds
       /\ IF fault = "none"
          THEN /\ disk' = [disk EXCEPT ![current_db_file] = ds]
               /\ ever' = [ever EXCEPT ![current_db_file] = @ \cup {ds.seq}]
               /\ last' = Call("add", ds.seq, e, fault, Result(fault))
          ELSE /\ disk' = [disk EXCEPT ![current_db_file] =
                             Rollback(@, Partial(@, category, fault))]
               /\ UNCHANGED ever
               /\ last' = Call("add", 0, NoExp, fault, Result(fault))
       /\ connections' = Connect(connections)
       /\ UNCHANGED <<is_local, email, email_db_file, current_db_file>>

delete_expense(expense_id, fault) ==
    /\ fault # "second"
    /\ disk' = IF fault = "none"
               THEN [disk EXCEPT ![current_db_file] = DeleteExpense(@, expense_id)]
               ELSE [disk EXCEPT ![current_db_file] = Rollback(@, @)]
    /\ last' = IF fault = "none"
               THEN Call("delete", expense_id, NoExp, fault, Result(fault))
               ELSE Call("delete", 0, NoExp, fault, Result(fault))
    /\ connections' = Connect(connections)
    /\ UNCHANGED <<is_local, email, email_db_file, current_db_file, ever>>

update_expense(expense_id, description, amount, category, date, fault) ==
    LET e == Exp(description, amount, category, date)
        ds == UpdateExpense(InsertOrIgnoreCategory(ActiveDataset, category),
                            expense_id, e)
    IN /\ disk' = IF fault = "none"
                  THEN [disk EXCEPT ![current_db_file] = ds]
                  ELSE [disk EXCEPT ![current_db_file] =
                           Rollback(@, Partial(@, category, fault))]
       /\ last' = IF fault = "none"
                  THEN Call("update", expense_id, e, fault, Result(fault))
                  ELSE Call("update", 0, NoExp, fault, Result(fault))
       /\ connections' = Connect(connections)
       /\ UNCHANGED <<is_local, email, email_db_file, current_db_file, ever>>

switch_database(to_local, e) ==
    LET file == IF to_local THEN local_db_file ELSE email_file_name(e)
    IN /\ is_local' = to_local
       /\ email' = e
       /\ email_db_file' = IF to_local THEN email_db_file ELSE file
       /\ current_db_file' = file
       /\ disk' = create_table(disk, file)
       /\ ever' = IF file \in DOMAIN ever THEN ever ELSE ever @@ (file :> {})
       /\ last' = Call("switch", 0, NoExp, "none", PyTrue)
       /\ connections' = Connect(connections)

\* Ids a caller may pass to update and delete.
Ids == 1..MaxAdds

Next ==
    \/ \E e \in Inputs, fault \in Faults :
          /\ add_expense(e.description, e.amount, e.category, e.date, fault)
          /\ UNCHANGED outside
    \/ \E id \in Ids, fault \in Faults :
          delete_expense(id, fault) /\ UNCHANGED outside
    \/ \E id \in Ids, e \in Inputs, fault \in Faults :
          /\ update_expense(id, e.description, e.amount, e.category, e.date, fault)
          /\ UNCHANGED outside

\* The store operations on the dataset the constructor opened.
Spec == Init /\ [][Next]_vars

NextSwitch ==
    \/ Next
    \/ switch_database(TRUE, None) /\ UNCHANGED outside
    \/ \E e \in Emails : switch_database(FALSE, e) /\ UNCHANGED outside

\* The same with the dataset selector switched between calls.
SpecSwitch == Init /\ [][NextSwitch]_vars

(***************************************************************************)
(* Queries, as functions of one dataset                                    *)
(***************************************************************************)
\* Mutant: ORDER BY date, without DESC.
DateDescBefore_asc(r, x) ==
    \/ TextLess(r.date, x.date)
    \/ r.date = x.date /\ r.id < x.id

\* r comes before x under ORDER BY date DESC.  The table is scanned in rowid
\* order and the sort keeps rows with equal keys in scan order.
DateDescBefore(r, x) ==
    \/ TextLess(x.date, r.date)
    \/ r.date = x.date /\ r.id < x.id

RECURSIVE OrderByDateDesc(_)
OrderByDateDesc(rows) ==
    IF rows = {} THEN <<>>
    ELSE LET h == CHOOSE r \in rows : \A x \in rows \ {r} : DateDescBefore(r, x)
         IN <<h>> \o OrderByDateDesc(rows \ {h})

\* SELECT * FROM expenses ORDER BY date DESC
load_expenses(ds) == OrderByDateDesc(ds.expenses)

RECURSIVE OrderByName(_)
OrderByName(names) ==
    IF names = {} THEN <<>>
    ELSE LET h == CHOOSE n \in names : \A x \in names \ {n} : TextLess(n, x)
         IN <<h>> \o OrderByName(names \ {h})

\* SELECT name FROM categories ORDER BY name
get_categories(ds) == OrderByName(ds.categories)

\* Mutant: SUM(DISTINCT amount).
total_expenses_distinct(ds) ==
    SumAmount({[amount |-> a] : a \in {r.amount : r \in ds.expenses}})

\* SELECT SUM(amount) FROM expenses; SUM over no rows is NULL, returned as 0.
total_expenses(ds) ==
    IF ds.expenses = {} THEN 0 ELSE SumAmount(ds.expenses)

\* All sequences that list every element of S once.
RECURSIVE Orderings(_)
Orderings(S) ==
    IF S = {} THEN {<<>>}
    ELSE UNION {{<<x>> \o s : s \in Orderings(S \ {x})} : x \in S}

\* SELECT category, SUM(amount) AS total FROM expenses GROUP BY category
GroupByCategory(ds) ==
    {<<c, SumAmount({r \in ds.expenses : r.category = c})>> :
        c \in {r.category : r \in ds.expenses}}

\* Mutant: ORDER BY total, without DESC.
expenses_by_category_asc(ds) ==
    {s \in Orderings(GroupByCategory(ds)) :
        \A i \in 1..Len(s), j \in 1..Len(s) : i < j => s[i][2] <= s[j][2]}

\* ... ORDER BY total DESC.  The order of groups with equal totals is left to
\* the engine: the operation may return any of these sequences.
expenses_by_category(ds) ==
    {s \in Orderings(GroupByCategory(ds)) :
        \A i \in 1..Len(s), j \in 1..Len(s) : i < j => s[i][2] >= s[j][2]}

\* SQLite reads a text as a date only in the form YYYY-MM-DD (month 01-12,
\* day 01-31); strftime of anything else is NULL.
IsSqliteDate(t) ==
    /\ Len(t) = 10
    /\ t[5] = "-" /\ t[8] = "-"
    /\ \A i \in {1, 2, 3, 4, 6, 7, 9, 10} : t[i] \in DigitSet
    /\ NumVal(SubSeq(t, 6, 7)) \in 1..12
    /\ NumVal(SubSeq(t, 9, 10)) \in 1..31

\* strftime('%Y', date) and strftime('%m', date); NULL is the empty text.
strftime_Y(t) == IF IsSqliteDate(t) THEN SubSeq(t, 1, 4) ELSE <<>>

strftime_m(t) == IF IsSqliteDate(t) THEN SubSeq(t, 6, 7) ELSE <<>>

\* datetime.now().year
current_year == 2024

\* SELECT strftime('%m', date) AS month, SUM(amount) AS total FROM expenses
\* WHERE strftime('%Y', date) = ? GROUP BY month, with ? = str(year)
GroupByMonth(ds, year) ==
    LET y == IF year = 0 THEN current_year ELSE year
        rows == {r \in ds.expenses : strftime_Y(r.date) = PyStr(y)}
    IN {<<m, SumAmount({r \in rows : strftime_m(r.date) = m})>> :
           m \in {strftime_m(r.date) : r \in rows}}

RECURSIVE OrderByMonth(_)
OrderByMonth(groups) ==
    IF groups = {} THEN <<>>
    ELSE LET h == CHOOSE g \in groups :
                     \A x \in groups \ {g} : TextLess(g[1], x[1])
         IN <<h>> \o OrderByMonth(groups \ {h})

\* year = 0 stands for a call without a year (None) as well: `year or ...`.
expenses_by_month(ds, year) == OrderByMonth(GroupByMonth(ds, year))

(***************************************************************************)
(* What the active dataset shows                                           *)
(***************************************************************************)
Expenses == load_expenses(ActiveDataset)

Total == total_expenses(ActiveDataset)

\* The same, in the state a step leads to.
ExpensesAfter == load_expenses(ActiveDataset')

TotalAfter == total_expenses(ActiveDataset')

Range(s) == {s[i] : i \in 1..Len(s)}

RemoveAt(s, i) == SubSeq(s, 1, i - 1) \o SubSeq(s, i + 1, Len(s))

RECURSIVE SumOfTotals(_)
SumOfTotals(s) == IF s = <<>> THEN 0 ELSE Head(s)[2] + SumOfTotals(Tail(s))

HasId(ds, id) == \E r \in ds.expenses : r.id = id

Succeeded(c, op) == c.op = op /\ c.ret = PyTrue

\* The calendar day a stored date denotes, as the number yyyymmdd.
DateNum(t) ==
    10000 * NumVal(SubSeq(t, 1, 4)) + 100 * NumVal(SubSeq(t, 6, 7))
        + NumVal(SubSeq(t, 9, 10))

YearOf(t) == NumVal(SubSeq(t, 1, 4))

(***************************************************************************)
(* C1: a successful add_expense followed by load_expenses returns the      *)
(* previous rows plus exactly one new row carrying the submitted fields,   *)
(* and total_expenses grows by exactly the submitted amount; on an empty   *)
(* dataset total_expenses is 0.                                            *)
(***************************************************************************)
C1_Step ==
    Succeeded(last', "add") =>
        /\ ActiveDataset.expenses = {} => Total = 0
        /\ Len(ExpensesAfter) = Len(Expenses) + 1
        /\ \E i \in 1..Len(ExpensesAfter) :
              /\ Fields(ExpensesAfter[i]) = last'.exp
              /\ ~HasId(ActiveDataset, ExpensesAfter[i].id)
              /\ RemoveAt(ExpensesAfter, i) = Expenses
        /\ TotalAfter = Total + last'.exp.amount

C1_AddThenList == [][C1_Step]_vars

C1_Witness ==
    /\ Succeeded(last, "add")
    /\ Len(Expenses) >= 2
    /\ \E r \in ActiveDataset.expenses :
          r.id # last.id /\ r.amount = last.exp.amount

(***************************************************************************)
(* C2: after a successful update_expense on the id of a row that was added *)
(* before, load_expenses shows exactly one row with that id, carrying the  *)
(* four updated fields, and every row with another id is unchanged.        *)
(***************************************************************************)
C2_Step ==
    (Succeeded(last', "update") /\ HasId(ActiveDataset, last'.id)) =>
        /\ Cardinality({i \in 1..Len(ExpensesAfter) : ExpensesAfter[i].id = last'.id}) = 1
        /\ \A i \in 1..Len(ExpensesAfter) :
              ExpensesAfter[i].id = last'.id => Fields(ExpensesAfter[i]) = last'.exp
        /\ {r \in Range(ExpensesAfter) : r.id # last'.id}
              = {r \in Range(Expenses) : r.id # last'.id}
        /\ Len(ExpensesAfter) = Len(Expenses)

C2_AddUpdateList == [][C2_Step]_vars

C2_Witness ==
    /\ Succeeded(last, "update")
    /\ \E r \in ActiveDataset.expenses : r.id = last.id /\ Fields(r) = last.exp
    /\ \E r \in ActiveDataset.expenses : r.id # last.id /\ Fields(r) # last.exp

(***************************************************************************)
(* C3: after delete_expense(id), load_expenses has no row with that id and *)
(* every other row is unchanged; on an id that matches no row the call     *)
(* reports success and alters nothing.                                     *)
(***************************************************************************)
C3_Step ==
    (last'.op = "delete" /\ last'.fault = "none") =>
        /\ last'.ret = PyTrue
        /\ \A i \in 1..Len(ExpensesAfter) : ExpensesAfter[i].id # last'.id
        /\ Range(ExpensesAfter) = {r \in Range(Expenses) : r.id # last'.id}
        /\ ~HasId(ActiveDataset, last'.id) => ActiveDataset' = ActiveDataset

C3_DeleteThenList == [][C3_Step]_vars

C3_Witness ==
    /\ Succeeded(last, "delete")
    /\ last.id \in ever[current_db_file]
    /\ ~HasId(ActiveDataset, last.id)
    /\ ActiveDataset.expenses # {}

(***************************************************************************)
(* Dataset selectors: the local file, or the file keyed by an e-mail.      *)
(***************************************************************************)
Selector(l, e) == [is_local |-> l, email |-> e]

Selectors == {Selector(TRUE, None)} \cup {Selector(FALSE, e) : e \in Emails}

ActiveSelector == Selector(is_local, email)

\* The file switch_database points the operations at for a selector.
FileOf(sel) ==
    IF sel.is_local THEN local_db_file ELSE email_file_name(sel.email)

\* What load_expenses and get_categories return once the selector is active
\* in a disk d (a file that does not exist yet is created empty).
ViewOf(d, sel) ==
    LET ds == create_table(d, FileOf(sel))[FileOf(sel)]
    IN <<load_expenses(ds), get_categories(ds)>>

(***************************************************************************)
(* C4: dataset isolation under switching: what is written while selector A *)
(* is active is never visible while another selector B is active, and is   *)
(* all still present, unchanged, after switching back to A.  As a step     *)
(* property: a call made while A is active changes nothing of what any     *)
(* other selector shows, and a switch changes nothing of what any selector *)
(* shows.                                                                  *)
(***************************************************************************)
C4_Step ==
    \A B \in Selectors :
        (B # ActiveSelector \/ last'.op = "switch")
            => ViewOf(disk', B) = ViewOf(disk, B)

C4_Isolation == [][C4_Step]_vars

(***************************************************************************)
(* C5: expenses_by_category returns exactly one entry per category that    *)
(* has at least one expense, in descending order of sum, and the sums of   *)
(* the returned entries add up to total_expenses.                          *)
(***************************************************************************)
C5_ByCategory ==
    /\ expenses_by_category(ActiveDataset) # {}
    /\ \A s \in expenses_by_category(ActiveDataset) :
          /\ {s[i][1] : i \in 1..Len(s)}
                = {r.category : r \in ActiveDataset.expenses}
          /\ \A i \in 1..Len(s), j \in 1..Len(s) : s[i][1] = s[j][1] => i = j
          /\ \A i \in 1..Len(s), j \in 1..Len(s) : i < j => s[i][2] >= s[j][2]
          /\ SumOfTotals(s) = Total

C5_Witness ==
    /\ Cardinality(ActiveDataset.expenses) >= 3
    /\ \E s \in expenses_by_category(ActiveDataset) :
          Len(s) = 2 /\ s[1][2] > s[2][2]

(***************************************************************************)
(* C6: for every year, expenses_by_month(year) returns its entries in      *)
(* ascending month order, never includes a month whose sum is zero, and    *)
(* the returned sums add up to the sum of the amounts of all expenses      *)
(* whose date falls in that year.                                          *)
(***************************************************************************)
Years == {999, 2023, 2024}

C6_ByMonth ==
    \A year \in Years :
        LET s == expenses_by_month(ActiveDataset, year)
        IN /\ \A i \in 1..Len(s), j \in 1..Len(s) :
                 i < j => NumVal(s[i][1]) < NumVal(s[j][1])
           /\ \A i \in 1..Len(s) : s[i][2] # 0
           /\ SumOfTotals(s)
                 = SumAmount({r \in ActiveDataset.expenses : YearOf(r.date) = year})

C8_Step ==
    (last'.op = "update" /\ last'.fault = "none"
       /\ ~HasId(ActiveDataset, last'.id)) =>
        /\ last'.ret = PyTrue
        /\ ActiveDataset'.expenses = ActiveDataset.expenses
        /\ ActiveDataset'.categories = ActiveDataset.categories

C8_UpdateMissingIsNoop == [][C8_Step]_vars

(***************************************************************************)
(* C9: a successful add returns the id of the newly inserted row.          *)
(***************************************************************************)
C9_AddReturnsId ==
    (last.op = "add" /\ last.fault = "none") =>
        \E r \in ActiveDataset.expenses :
            /\ r.id = last.ret
            /\ r.id = ActiveDataset.seq
            /\ Fields(r) = last.exp

(***************************************************************************)
(* C9 as amended: add_expense returns True when no statement raised, and   *)
(* the row it inserted carries the submitted fields under the id the store *)
(* assigned, which the returned value does not tell.                       *)
(***************************************************************************)
C9_AddReturnsTrue ==
    (last.op = "add" /\ last.fault = "none") =>
        /\ last.ret = PyTrue
        /\ \E r \in ActiveDataset.expenses :
              r.id = last.id /\ Fields(r) = last.exp
        /\ \A r \in ActiveDataset.expenses : r.id <= last.id

C9_Witness ==
    /\ Succeeded(last, "add")
    /\ last.id > 1
    /\ \E r \in ActiveDataset.expenses : r.id = last.id

(***************************************************************************)
(* C10: within one dataset ids are unique, and every add assigns an id     *)
(* strictly greater than every id assigned before in that dataset, also    *)
(* after the row that held the largest id was deleted.                     *)
(***************************************************************************)
UniqueIds(ds) ==
    \A r1 \in ds.expenses, r2 \in ds.expenses : r1.id = r2.id => r1 = r2

C10_Step ==
    /\ \A f \in DOMAIN disk' : UniqueIds(disk'[f])
    /\ Succeeded(last', "add") =>
          /\ HasId(ActiveDataset', last'.id)
          /\ \A i \in ever[current_db_file] : i < last'.id
          /\ \A r \in ActiveDataset.expenses : r.id < last'.id

C10_IdsNeverReused == [][C10_Step]_vars

C10_Witness ==
    /\ Succeeded(last, "add")
    /\ last.id > 1
    /\ (last.id - 1) \in ever[current_db_file]
    /\ ~HasId(ActiveDataset, last.id - 1)

(***************************************************************************)
(* C11: every mutating operation is one atomic unit, its category insert   *)
(* included: an add_expense, update_expense or delete_expense in which a   *)
(* statement raises, also one after the category insert, returns False and *)
(* leaves every dataset exactly as it was before the call.                 *)
(***************************************************************************)
C11_Step ==
    (last'.op \in {"add", "update", "delete"} /\ last'.fault # "none") =>
        /\ last'.ret = PyFalse
        /\ disk' = disk

C11_Atomic == [][C11_Step]_vars

\* A call failed at its second statement while the categories table is
\* empty: the category insert that ran before was of a new name.
C11_Witness ==
    /\ last.op \in {"add", "update"}
    /\ last.fault = "second"
    /\ last.ret = PyFalse
    /\ ActiveDataset.categories = {}
    /\ ActiveDataset.expenses = {}

(***************************************************************************)
(* Read-only operations as calls, and the interpreter's collector          *)
(***************************************************************************)
Queries == {"load_expenses", "get_categories", "total_expenses",
            "expenses_by_category", "expenses_by_month"}

\* A call of one of the queries: it opens its connection like the mutating
\* operations and changes no data.  When its statement raises, the exception
\* leaves the method (the queries have no try) and nothing is returned.
run_query(q, fault) ==
    /\ fault # "second"
    /\ last' = Call(q, 0, NoExp, fault, Result(fault))
    /\ connections' = Connect(connections)
    /\ UNCHANGED <<is_local, email, email_db_file, current_db_file, disk, ever>>

\* The interpreter frees the unreachable connection objects, which closes
\* them.
garbage_collect ==
    /\ connections > 0
    /\ connections' = 0
    /\ UNCHANGED <<is_local, email, email_db_file, current_db_file, disk,
                   last, ever>>

NextConn ==
    \/ Next
    \/ \E q \in Queries, fault \in Faults :
          run_query(q, fault) /\ UNCHANGED outside
    \/ garbage_collect /\ UNCHANGED outside

\* The store operations, the queries and the collector.
SpecConn == Init /\ [][NextConn]_vars

(***************************************************************************)
(* C12: every Store operation releases the connection it opened before it  *)
(* returns: no step leaves more connections open than it found.            *)
(***************************************************************************)
C12_Step == connections' <= connections

C12_ConnectionsReleased == [][C12_Step]_vars

(***************************************************************************)
(* Backup by e-mail                                                        *)
(***************************************************************************)
\* Readings of datetime.now() to the second, which name the backup file.
Timestamps == {1, 2}

\* Where email_backup fails: "export" is export_to_json failing before it
\* created the file (it returns False, which email_backup ignores), "smtp" is
\* the connection, login or sendmail raising.
BackupFaults == {"none", "export", "smtp"}

email_backup(timestamp, fault) ==
    LET written == IF fault = "export" THEN backup_files
                   ELSE backup_files \cup {timestamp}
    IN /\ IF timestamp \notin written
          THEN \* open(backup_file, 'rb') raises
               /\ backup_files' = written
               /\ last' = Call("email_backup", timestamp, NoExp, fault, PyFalse)
          ELSE IF fault = "smtp"
          THEN /\ backup_files' = written
               /\ last' = Call("email_backup", timestamp, NoExp, fault, PyFalse)
          ELSE \* sent; os.remove(backup_file)
               /\ backup_files' = written \ {timestamp}
               /\ last' = Call("email_backup", timestamp, NoExp, fault, PyTrue)
       /\ connections' = Connect(connections)
       /\ UNCHANGED <<is_local, email, email_db_file, current_db_file, disk, ever,
                      selected_expense, selected_in, message>>

NextBackup ==
    \/ Next
    \/ \E t \in Timestamps, fault \in BackupFaults : email_backup(t, fault)

\* The store operations and the backup.
SpecBackup == Init /\ [][NextBackup]_vars

(***************************************************************************)
(* C13: email_backup deletes the temporary backup file it created whatever *)
(* the outcome: when it returns, True or False, no backup file that the    *)
(* call created remains on disk.                                           *)
(***************************************************************************)
C13_Step == last'.op = "email_backup" => backup_files' \subseteq backup_files

C13_BackupFileRemoved == [][C13_Step]_vars

(***************************************************************************)
(* The window (class ExpenseTrackerApp)                                    *)
(*                                                                         *)
(* The entry fields are inputs of the handlers: the user may edit them     *)
(* before pressing a button.  What is typed is text, descriptions          *)
(* included, because the handlers strip and parse it.                      *)
(***************************************************************************)
\* str.strip() over an alphabet whose only white space is " ".
RECURSIVE lstrip(_)
lstrip(t) == IF t # <<>> /\ Head(t) = " " THEN lstrip(Tail(t)) ELSE t

RECURSIVE rstrip(_)
rstrip(t) == IF t # <<>> /\ t[Len(t)] = " "
             THEN rstrip(SubSeq(t, 1, Len(t) - 1)) ELSE t

strip(t) == rstrip(lstrip(t))

AllDigits(t) == \A i \in 1..Len(t) : t[i] \in DigitSet

\* float(s) for the texts the forms hold: white space around an optional
\* sign, digits and an optional point with at most two digits after it; the
\* value is in hundredths.  Other
\* texts over the alphabet raise ValueError, those with a letter too: of
\* them float accepts only nan, inf, infinity and exponents, which no form
\* of the model holds.
float(s) ==
    LET t == strip(s)
        signed == t # <<>> /\ t[1] \in {"-", "+"}
        body == IF signed THEN Tail(t) ELSE t
        points == {i \in 1..Len(body) : body[i] = "."}
        p == IF points = {} THEN Len(body) + 1 ELSE CHOOSE i \in points : TRUE
        whole == SubSeq(body, 1, p - 1)
        frac == SubSeq(body, p + 1, Len(body))
        ok == /\ Cardinality(points) <= 1
              /\ AllDigits(whole) /\ AllDigits(frac)
              /\ Len(whole) + Len(frac) > 0
              /\ Len(frac) <= 2
        hundredths == IF Len(frac) = 1 THEN 10 * NumVal(frac) ELSE NumVal(frac)
        magnitude == 100 * NumVal(whole) + hundredths
    IN [ok |-> ok,
        value |-> IF ~ok THEN 0
                  ELSE IF signed /\ t[1] = "-" THEN 0 - magnitude
                  ELSE magnitude]

IsLeap(y) == (y % 4 = 0 /\ y % 100 # 0) \/ y % 400 = 0

DaysInMonth(y, m) ==
    IF m = 2 THEN (IF IsLeap(y) THEN 29 ELSE 28)
    ELSE IF m \in {4, 6, 9, 11} THEN 30
    ELSE 31

\* The directive %m: 1[0-2]|0[1-9]|[1-9]
MonthText(t) ==
    \/ Len(t) = 1 /\ t[1] \in DigitSet \ {"0"}
    \/ Len(t) = 2 /\ t[1] = "1" /\ t[2] \in {"0", "1", "2"}
    \/ Len(t) = 2 /\ t[1] = "0" /\ t[2] \in DigitSet \ {"0"}

\* The directive %d: 3[0-1]|[1-2]\d|0[1-9]|[1-9]| [1-9]
DayText(t) ==
    \/ Len(t) = 1 /\ t[1] \in DigitSet \ {"0"}
    \/ Len(t) = 2 /\ t[1] = "3" /\ t[2] \in {"0", "1"}
    \/ Len(t) = 2 /\ t[1] \in {"1", "2"} /\ t[2] \in DigitSet
    \/ Len(t) = 2 /\ t[1] \in {"0", " "} /\ t[2] \in DigitSet \ {"0"}

\* Whether datetime.strptime(t, "%Y-%m-%d") returns (rather than raising
\* ValueError): four digits, "-", a month, "-", a day, nothing after it, and
\* a date of the calendar from year 1 on.
strptime_ok(t) ==
    /\ Len(t) >= 8
    /\ AllDigits(SubSeq(t, 1, 4))
    /\ t[5] = "-"
    /\ \E p \in 7..8 :
          /\ p < Len(t)
          /\ t[p] = "-"
          /\ LET y == NumVal(SubSeq(t, 1, 4))
                 month == SubSeq(t, 6, p - 1)
                 day == SubSeq(t, p + 1, Len(t))
             IN /\ MonthText(month)
                /\ DayText(day)
                /\ y >= 1
                /\ NumVal(lstrip(day)) <= DaysInMonth(y, NumVal(month))

Form(d, a, c, t) == [description |-> d, amount |-> a, category |-> c, date |-> t]

\* " tea", " 3.50", "food", "2024-01-05 ": accepted once stripped.
GoodForm == Form(<<" ", "t", "e", "a">>, <<" ", "3", ".", "5", "0">>, Food,
                 Date_2024_01_05 \o <<" ">>)

\* "bun", "2", "bus", "2024-1-5"
LooseDateForm == Form(<<"b", "u", "n">>, <<"2">>, Bus,
                      <<"2", "0", "2", "4", "-", "1", "-", "5">>)

\* One form for each way a field can be wrong.
BadForms ==
    { [GoodForm EXCEPT !.description = <<" ">>],
      [GoodForm EXCEPT !.amount = <<>>],
      [GoodForm EXCEPT !.amount = <<"x">>],
      [GoodForm EXCEPT !.amount = <<"0">>],
      [GoodForm EXCEPT !.amount = <<"-", "1">>],
      [GoodForm EXCEPT !.category = <<" ", " ">>],
      [GoodForm EXCEPT !.date = <<"0", "5", "-", "0", "1", "-", "2", "0", "2", "4">>],
      [GoodForm EXCEPT !.date = T("2", "0", "2", "3", "-", "0", "2", "-", "2", "9")],
      [GoodForm EXCEPT !.date = T("2", "0", "2", "4", "-", "1", "3", "-", "0", "1")],
      [GoodForm EXCEPT !.date = <<>>] }

Forms == {GoodForm, LooseDateForm} \cup BadForms

\* The checks add_expense and update_expense make on the stripped fields, in
\* their order: the text of the error box, "" when all pass.
Validate(description, amount_str, category, date) ==
    IF description = <<>> THEN "Please enter a description"
    ELSE IF amount_str = <<>> THEN "Please enter an amount"
    ELSE IF ~float(amount_str).ok THEN "Amount must be a number"
    ELSE IF float(amount_str).value <= 0 THEN "Amount must be positive"
    ELSE IF category = <<>> THEN "Please enter a category"
    ELSE IF ~strptime_ok(date) THEN "Date must be in YYYY-MM-DD format"
    ELSE ""

Rejected(form) ==
    Validate(strip(form.description), strip(form.amount), strip(form.category),
             strip(form.date)) # ""

\* The rows of the list, as load_expenses of the window fills it: every
\* handler that changes the active dataset or switches it reloads the list.
\* values = (id, date, description, amount as shown, category)
Tree ==
    LET rows == load_expenses(ActiveDataset)
    IN [i \in 1..Len(rows) |->
          <<rows[i].id, rows[i].date, rows[i].description, rows[i].amount,
            rows[i].category>>]

App_add_expense(form, fault) ==
    LET description == strip(form.description)
        amount_str == strip(form.amount)
        category == strip(form.category)
        date == strip(form.date)
        error == Validate(description, amount_str, category, date)
    IN IF error # ""
       THEN /\ message' = error
            /\ UNCHANGED <<is_local, email, email_db_file, current_db_file, disk,
                           last, ever, connections, backup_files,
                           selected_expense, selected_in>>
       ELSE /\ add_expense(description, float(amount_str).value, category, date,
                           fault)
            /\ message' = IF Result(fault) = PyTrue THEN "Added expense"
                          ELSE "Failed to add expense"
            /\ UNCHANGED <<backup_files, selected_expense, selected_in>>

App_update_expense(form, fault) ==
    LET description == strip(form.description)
        amount_str == strip(form.amount)
        category == strip(form.category)
        date == strip(form.date)
        error == Validate(description, amount_str, category, date)
    IN /\ selected_expense # None
       /\ IF error # ""
          THEN /\ message' = error
               /\ UNCHANGED <<is_local, email, email_db_file, current_db_file,
                              disk, last, ever, connections, backup_files,
                              selected_expense, selected_in>>
          ELSE /\ update_expense(selected_expense[1], description,
                                 float(amount_str).value, category, date, fault)
               /\ IF Result(fault) = PyTrue
                  THEN /\ message' = "Updated expense"
                       /\ selected_expense' = None
                       /\ selected_in' = None
                  ELSE /\ message' = "Failed to update expense"
                       /\ UNCHANGED <<selected_expense, selected_in>>
               /\ UNCHANGED backup_files

\* confirm: the answer to "Delete expense: ...?"
App_delete_expense(confirm, fault) ==
    /\ selected_expense # None
    /\ confirm
    /\ delete_expense(selected_expense[1], fault)
    /\ IF Result(fault) = PyTrue
       THEN /\ message' = "Deleted expense"
            /\ selected_expense' = None
            /\ selected_in' = None
       ELSE /\ message' = "Failed to delete expense"
            /\ UNCHANGED <<selected_expense, selected_in>>
    /\ UNCHANGED backup_files

\* The user picks row i of the list.
item_selected(i) ==
    /\ i \in 1..Len(Tree)
    /\ selected_expense' = Tree[i]
    /\ selected_in' = current_db_file
    /\ UNCHANGED <<is_local, email, email_db_file, current_db_file, disk, last,
                   ever, connections, backup_files, message>>

cancel_selection ==
    /\ selected_expense' = None
    /\ selected_in' = None
    /\ UNCHANGED <<is_local, email, email_db_file, current_db_file, disk, last,
                   ever, connections, backup_files, message>>

\* re.match(r"[^@]+@[^@]+\.[^@]+", e): a prefix of e has this shape.
IsEmail(e) ==
    \E i \in 1..Len(e), j \in 1..Len(e) :
        /\ 1 < i /\ i + 1 < j /\ j < Len(e)
        /\ e[i] = "@" /\ e[j] = "."
        /\ \A k \in (1..(j + 1)) \ {i} : e[k] # "@"

\* a.b, which is no address
NotAnEmail == <<"a", ".", "b">>

\* What the user may type when asked for the e-mail (nothing: cancelled).
TypedEmails == Emails \cup {NotAnEmail, None}

App_switch_database(to_local, typed) ==
    IF ~to_local /\ typed = None
    THEN FALSE
    ELSE IF ~to_local /\ ~IsEmail(typed)
    THEN /\ message' = "Please enter a valid email address"
         /\ UNCHANGED <<is_local, email, email_db_file, current_db_file, disk,
                        last, ever, connections, backup_files,
                        selected_expense, selected_in>>
    ELSE /\ switch_database(to_local, IF to_local THEN None ELSE typed)
         /\ message' = "Switched database"
         /\ UNCHANGED <<backup_files, selected_expense, selected_in>>

\* The positions of the list the user may pick.
TreeRows == 1..MaxAdds

NextForm ==
    \/ \E form \in Forms, fault \in Faults : App_add_expense(form, fault)
    \/ \E form \in Forms, fault \in Faults : App_update_expense(form, fault)
    \/ \E confirm \in BOOLEAN, fault \in Faults :
          App_delete_expense(confirm, fault)
    \/ \E i \in TreeRows : item_selected(i)
    \/ cancel_selection

\* The window on the dataset it opens, driven through its buttons only.
SpecForm == Init /\ [][NextForm]_vars

\* With the menu, the forms are the two that pass.
NextApp ==
    \/ \E fault \in Faults : App_add_expense(GoodForm, fault)
    \/ \E fault \in Faults : App_update_expense(LooseDateForm, fault)
    \/ \E confirm \in BOOLEAN, fault \in Faults :
          App_delete_expense(confirm, fault)
    \/ \E i \in TreeRows : item_selected(i)
    \/ cancel_selection
    \/ \E typed \in TypedEmails : App_switch_database(FALSE, typed)
    \/ App_switch_database(TRUE, None)

\* The same with the Database menu.
SpecApp == Init /\ [][NextApp]_vars

(***************************************************************************)
(* C14: the handlers of the window validate a form before the store sees   *)
(* it, so every row that got into a dataset through the window has an      *)
(* amount above zero and a date written exactly as YYYY-MM-DD.             *)
(***************************************************************************)
IsYYYYMMDD(t) ==
    /\ Len(t) = 10
    /\ t[5] = "-" /\ t[8] = "-"
    /\ \A i \in {1, 2, 3, 4, 6, 7, 9, 10} : t[i] \in DigitSet

C14_RowsValid ==
    \A f \in DOMAIN disk : \A r \in disk[f].expenses :
        r.amount > 0 /\ IsYYYYMMDD(r.date)

(***************************************************************************)
(* C15: no operation removes a category name, also when no expense carries *)
(* it any more, and get_categories returns every name of the dataset once, *)
(* in ascending order.                                                     *)
(***************************************************************************)
C15_Step ==
    \A file \in DOMAIN disk :
        LET before == get_categories(disk[file])
            after == get_categories(disk'[file])
        IN /\ Range(before) \subseteq Range(after)
           /\ Range(after) = disk'[file].categories
           /\ \A i \in 1..Len(after), j \in 1..Len(after) :
                 i < j => TextLess(after[i], after[j])

C15_CategoriesKept == [][C15_Step]_vars

\* After a delete, two names are listed and no expense carries one of them.
C15_Witness ==
    /\ last.op = "delete"
    /\ last.ret = PyTrue
    /\ Len(get_categories(ActiveDataset)) = 2
    /\ \E c \in Range(get_categories(ActiveDataset)) :
          \A r \in ActiveDataset.expenses : r.category # c

(***************************************************************************)
(* C16: Update and Delete of the window change only a row that the user    *)
(* selected in the dataset that is active now: whenever one of them        *)
(* changes a dataset, the selection it acts on was made in the active      *)
(* dataset, never carried over from one that was active before.            *)
(***************************************************************************)
C16_Step ==
    (disk' # disk /\ last'.op \in {"update", "delete"}) =>
        selected_in = current_db_file

C16_SelectionOfActiveDataset == [][C16_Step]_vars

(***************************************************************************)
(* C17: the file of an e-mail dataset is named expenses_<s>.db, where s is *)
(* the e-mail with every character outside [A-Za-z0-9] replaced by "_"     *)
(* (so s is as long as the e-mail); it is never expenses.db; and two       *)
(* different e-mails never select the same file.                           *)
(***************************************************************************)
C17_Named ==
    ~is_local =>
        LET s == SubSeq(current_db_file, 10, Len(current_db_file) - 3)
        IN /\ current_db_file =
                 <<"e", "x", "p", "e", "n", "s", "e", "s", "_">> \o s
                    \o <<".", "d", "b">>
           /\ Len(s) = Len(email)
           /\ \A i \in 1..Len(s) :
                 s[i] = IF email[i] \in Alnum THEN email[i] ELSE "_"
           /\ current_db_file # local_db_file

C17_Step ==
    /\ C17_Named'
    /\ (~is_local /\ ~is_local' /\ email' # email) =>
           current_db_file' # current_db_file

C17_OneFilePerEmail == [][C17_Step]_vars

====
